---------------------------- MODULE Spec2Model ----------------------------
(***************************************************************************)
(* A model of the agentic-attention hook router: the per-session state     *)
(* file (state.py), the classifier (classify.py) and the event handlers    *)
(* (router.py).  Every hook event is handled by a process of its own; the  *)
(* processes share the state files under STATE_DIR and nothing else.       *)
(*                                                                         *)
(* A Python str is a sequence of one-character strings, so that slicing,   *)
(* line splitting, pattern matching and JSON serialisation are computed on *)
(* characters, as the code computes them.                                  *)
(*                                                                         *)
(* The file system is reliable: open, read, write and remove raise OSError *)
(* for no reason other than a missing file.                                *)
(***************************************************************************)
EXTENDS Integers, Sequences, FiniteSets, TLC

(***************************************************************************)
(* Characters and strings                                                  *)
(***************************************************************************)
NL == "\n"
QUOTE == "\""
BACKSLASH == "\\"
EmptyStr == << >>

\* str.lower() of one character, over the letters the model uses.
Lower(c) ==
    CASE c = "A" -> "a"
      [] c = "B" -> "b"
      [] c = "O" -> "o"
      [] c = "K" -> "k"
      [] OTHER -> c

IsSpace(c) == c \in {" ", NL, "\t"}

\* s[:n]
Take(s, n) == SubSeq(s, 1, IF n < Len(s) THEN n ELSE Len(s))

\* s[n:]
Drop(s, n) == SubSeq(s, n + 1, Len(s))

\* Whether t occurs in s at offset i (0-based).
StartsAt(s, t, i) ==
    /\ i + Len(t) <= Len(s)
    /\ \A k \in 1..Len(t) : s[i + k] = t[k]

(***************************************************************************)
(* state.py: the record and its JSON text                                  *)
(***************************************************************************)
critical == <<"c", "r", "i", "t", "i", "c", "a", "l">>
complete == <<"c", "o", "m", "p", "l", "e", "t", "e">>
update == <<"u", "p", "d", "a", "t", "e">>

\* The dict {} that read_state and mark_seen return when there is no record.
EmptyState == [has |-> FALSE, seen |-> FALSE, tier |-> EmptyStr,
               project |-> EmptyStr, detail |-> EmptyStr]

\* The dict write_state builds.
StateDict(seen, tier, project, detail) ==
    [has |-> TRUE, seen |-> seen, tier |-> tier, project |-> project,
     detail |-> detail]

\* json's string escaping of one character (the ASCII characters that need it).
JsonEscapeChar(c) ==
    CASE c = QUOTE -> <<BACKSLASH, QUOTE>>
      [] c = BACKSLASH -> <<BACKSLASH, BACKSLASH>>
      [] c = NL -> <<BACKSLASH, "n">>
      [] c = "\t" -> <<BACKSLASH, "t">>
      [] OTHER -> <<c>>

RECURSIVE JsonEscape(_)
JsonEscape(s) ==
    IF s = EmptyStr THEN EmptyStr
    ELSE JsonEscapeChar(Head(s)) \o JsonEscape(Tail(s))

JsonString(s) == <<QUOTE>> \o JsonEscape(s) \o <<QUOTE>>

KeySeen == <<QUOTE, "s", "e", "e", "n", QUOTE, ":", " ">>
KeyTier == <<QUOTE, "t", "i", "e", "r", QUOTE, ":", " ">>
KeyProject == <<QUOTE, "p", "r", "o", "j", "e", "c", "t", QUOTE, ":", " ">>
KeyDetail == <<QUOTE, "d", "e", "t", "a", "i", "l", QUOTE, ":", " ">>
ItemSep == <<",", " ">>
JsonTrue == <<"t", "r", "u", "e">>
JsonFalse == <<"f", "a", "l", "s", "e">>

\* json.dump(state, f): the text of a record, keys in insertion order.
JsonDump(state) ==
    <<"{">> \o KeySeen \o (IF state.seen THEN JsonTrue ELSE JsonFalse)
    \o ItemSep \o KeyTier \o JsonString(state.tier)
    \o ItemSep \o KeyProject \o JsonString(state.project)
    \o ItemSep \o KeyDetail \o JsonString(state.detail)
    \o <<"}">>

\* The scan of a JSON string body from offset i (0-based, after the opening
\* quote): [ok, val, next], next the offset after the closing quote.
RECURSIVE ScanString(_, _, _)
ScanString(s, i, acc) ==
    IF i >= Len(s) THEN [ok |-> FALSE, val |-> acc, next |-> i]
    ELSE LET c == s[i + 1] IN
         IF c = QUOTE THEN [ok |-> TRUE, val |-> acc, next |-> i + 1]
         ELSE IF c = BACKSLASH THEN
             IF i + 1 >= Len(s) THEN [ok |-> FALSE, val |-> acc, next |-> i]
             ELSE LET e == s[i + 2]
                      u == CASE e = "n" -> NL
                             [] e = "t" -> "\t"
                             [] OTHER -> e
                  IN  IF e \in {QUOTE, BACKSLASH, "n", "t"}
                      THEN ScanString(s, i + 2, Append(acc, u))
                      ELSE [ok |-> FALSE, val |-> acc, next |-> i]
         ELSE IF c \in {NL, "\t"} THEN [ok |-> FALSE, val |-> acc, next |-> i]
         ELSE ScanString(s, i + 1, Append(acc, c))

\* A "key": "string" item at offset i: [ok, val, next].
ScanItem(s, i, key) ==
    IF StartsAt(s, key \o <<QUOTE>>, i)
    THEN ScanString(s, i + Len(key) + 1, EmptyStr)
    ELSE [ok |-> FALSE, val |-> EmptyStr, next |-> i]

\* json.load(f) of the text of a state file: [ok, state]; ok is FALSE where
\* json.load raises JSONDecodeError (an empty file, a cut text, extra data).
JsonLoad(data) ==
    LET p0 == <<"{">> \o KeySeen
        isT == StartsAt(data, p0 \o JsonTrue, 0)
        isF == StartsAt(data, p0 \o JsonFalse, 0)
        i1 == Len(p0) + (IF isT THEN Len(JsonTrue) ELSE Len(JsonFalse))
        okSep(i) == StartsAt(data, ItemSep, i)
        t == ScanItem(data, i1 + Len(ItemSep), KeyTier)
        p == ScanItem(data, t.next + Len(ItemSep), KeyProject)
        d == ScanItem(data, p.next + Len(ItemSep), KeyDetail)
        bad == [ok |-> FALSE, state |-> EmptyState]
    IN  IF ~(isT \/ isF) THEN bad
        ELSE IF ~(okSep(i1) /\ t.ok) THEN bad
        ELSE IF ~(okSep(t.next) /\ p.ok) THEN bad
        ELSE IF ~(okSep(p.next) /\ d.ok) THEN bad
        ELSE IF ~(StartsAt(data, <<"}">>, d.next) /\ d.next + 1 = Len(data))
        THEN bad
        ELSE [ok |-> TRUE, state |-> StateDict(isT, t.val, p.val, d.val)]

(***************************************************************************)
(* classify.py: the configuration                                          *)
(*                                                                         *)
(* A dict is a function; d.get(k, default) is Get(d, k, default).  The     *)
(* top-level table keeps the tier tables under "tiers", keyed by the tier  *)
(* name, beside "project" and "states".                                    *)
(***************************************************************************)
EmptyDict == << >>

Get(d, k, default) == IF k \in DOMAIN d THEN d[k] ELSE default

TIER_ORDER == <<critical, complete, update>>

\* config.get(tier, {})
TierConfig(config, tier) == Get(Get(config, "tiers", EmptyDict), tier, EmptyDict)

(***************************************************************************)
(* A pattern is a regular expression of the shape  ^? literal $?  or one   *)
(* that does not compile.  re.search(pattern, text, IGNORECASE|MULTILINE): *)
(* the literal is compared case-insensitively, ^ matches at the start of   *)
(* the text and after every newline, $ at the end and before every newline.*)
(***************************************************************************)
Pat(bol, lit, eol) == [kind |-> "lit", bol |-> bol, lit |-> lit, eol |-> eol]
BadPat == [kind |-> "bad", bol |-> FALSE, lit |-> EmptyStr, eol |-> FALSE]

\* Whether compiling the pattern raises re.error.
ReError(pattern) == pattern.kind = "bad"

MatchesAt(pattern, text, i) ==
    /\ i + Len(pattern.lit) <= Len(text)
    /\ \A k \in 1..Len(pattern.lit) : Lower(text[i + k]) = Lower(pattern.lit[k])
    /\ pattern.bol => (i = 0 \/ text[i] = NL)
    /\ pattern.eol => (i + Len(pattern.lit) = Len(text)
                       \/ text[i + Len(pattern.lit) + 1] = NL)

ReSearch(pattern, text) == \E i \in 0..Len(text) : MatchesAt(pattern, text, i)

\* The inner loop, were a pattern that does not compile to end it.
RECURSIVE AnyPatternMatchesUntilError(_, _, _)
AnyPatternMatchesUntilError(patterns, text, k) ==
    IF k > Len(patterns) THEN FALSE
    ELSE IF ReError(patterns[k]) THEN FALSE
    ELSE IF ReSearch(patterns[k], text) THEN TRUE
    ELSE AnyPatternMatchesUntilError(patterns, text, k + 1)

\* The inner loop of classify_priority: the patterns from index k on.
RECURSIVE AnyPatternMatches(_, _, _)
AnyPatternMatches(patterns, text, k) ==
    IF k > Len(patterns) THEN FALSE
    ELSE IF ReError(patterns[k]) THEN AnyPatternMatches(patterns, text, k + 1)
    ELSE IF ReSearch(patterns[k], text) THEN TRUE
    ELSE AnyPatternMatches(patterns, text, k + 1)

\* The outer loop of classify_priority: the tiers from index k on.
RECURSIVE WalkTiers(_, _, _)
WalkTiers(text, config, k) ==
    IF k > Len(TIER_ORDER) THEN update
    ELSE LET tier == TIER_ORDER[k]
             patterns == Get(TierConfig(config, tier), "patterns", << >>)
         IN  IF AnyPatternMatches(patterns, text, 1) THEN tier
             ELSE WalkTiers(text, config, k + 1)

\* classify_priority without its test for an empty text.
classify_priority_AnyText(text, config) == WalkTiers(text, config, 1)

classify_priority(text, config) ==
    IF text = EmptyStr THEN update ELSE WalkTiers(text, config, 1)

(***************************************************************************)
(* classify.py: extract_context                                            *)
(***************************************************************************)
RECURSIVE LStrip(_)
LStrip(s) == IF s # EmptyStr /\ IsSpace(Head(s)) THEN LStrip(Tail(s)) ELSE s

RECURSIVE RStrip(_)
RStrip(s) ==
    IF s # EmptyStr /\ IsSpace(s[Len(s)]) THEN RStrip(SubSeq(s, 1, Len(s) - 1))
    ELSE s

Strip(s) == RStrip(LStrip(s))

\* s.split(sep): the pieces between the separators, empty ones included.
RECURSIVE SplitOn(_, _, _)
SplitOn(s, sep, cur) ==
    IF s = EmptyStr THEN <<cur>>
    ELSE IF Head(s) = sep THEN <<cur>> \o SplitOn(Tail(s), sep, EmptyStr)
    ELSE SplitOn(Tail(s), sep, Append(cur, Head(s)))

RECURSIVE StrippedNonEmpty(_)
StrippedNonEmpty(pieces) ==
    IF pieces = << >> THEN << >>
    ELSE (IF Strip(Head(pieces)) # EmptyStr THEN <<Strip(Head(pieces))>> ELSE << >>)
         \o StrippedNonEmpty(Tail(pieces))

\* line.split()[-1]: the last whitespace-delimited word of a line.
RECURSIVE LastWord(_)
LastWord(line) ==
    LET r == RStrip(line) IN
    IF r = EmptyStr THEN EmptyStr
    ELSE IF \E k \in 1..Len(r) : IsSpace(r[k])
         THEN LastWord(Drop(r, CHOOSE k \in 1..Len(r) :
                                 IsSpace(r[k]) /\ \A j \in (k + 1)..Len(r) : ~IsSpace(r[j])))
         ELSE r

Contains(s, c) == \E k \in 1..Len(s) : s[k] = c

IsQuestion(line) == LET r == RStrip(line) IN r # EmptyStr /\ r[Len(r)] = "?"

IsPathLike(line) == Contains(line, "/") \/ Contains(LastWord(line), ".")

\* The first loop of extract_context: <<found, line>> from index k on.
RECURSIVE FirstQuestion(_, _)
FirstQuestion(lines, k) ==
    IF k > Len(lines) THEN <<FALSE, EmptyStr>>
    ELSE IF IsQuestion(lines[k]) THEN <<TRUE, lines[k]>>
    ELSE FirstQuestion(lines, k + 1)

\* The second loop of extract_context.
RECURSIVE FirstPathLike(_, _)
FirstPathLike(lines, k) ==
    IF k > Len(lines) THEN <<FALSE, EmptyStr>>
    ELSE IF IsPathLike(lines[k]) THEN <<TRUE, lines[k]>>
    ELSE FirstPathLike(lines, k + 1)

\* extract_context with its two loops in the other order.
extract_context_PathFirst(text, max_len) ==
    IF text = EmptyStr THEN EmptyStr
    ELSE LET lines == StrippedNonEmpty(SplitOn(Strip(text), NL, EmptyStr))
             q == FirstQuestion(lines, 1)
             f == FirstPathLike(lines, 1)
         IN  IF lines = << >> THEN EmptyStr
             ELSE IF f[1] THEN Take(f[2], max_len)
             ELSE IF q[1] THEN Take(q[2], max_len)
             ELSE Take(lines[Len(lines)], max_len)

extract_context(text, max_len) ==
    IF text = EmptyStr THEN EmptyStr
    ELSE LET lines == StrippedNonEmpty(SplitOn(Strip(text), NL, EmptyStr))
             q == FirstQuestion(lines, 1)
             f == FirstPathLike(lines, 1)
         IN  IF lines = << >> THEN EmptyStr
             ELSE IF q[1] THEN Take(q[2], max_len)
             ELSE IF f[1] THEN Take(f[2], max_len)
             ELSE Take(lines[Len(lines)], max_len)

(***************************************************************************)
(* classify.py: the transcript                                             *)
(*                                                                         *)
(* A transcript file is [exists, lines].  A line is [json, type, role,     *)
(* content, refs]: json is "ok" when json.loads gives a dict and "bad"     *)
(* when it raises; content is the message's blocks, each [type, text];     *)
(* refs are the values of group 1 of the matches re.finditer finds for the *)
(* configured path_pattern in the raw line, in order.                      *)
(***************************************************************************)
TAIL_LINES == 100

NoTranscript == [exists |-> FALSE, lines |-> << >>]

\* A tail that is the whole file.
LastNAll(lines, n) == lines

\* lines[-n:]
LastN(lines, n) == IF Len(lines) <= n THEN lines ELSE Drop(lines, Len(lines) - n)

\* The text blocks of a message, in order.
RECURSIVE TextBlocks(_)
TextBlocks(content) ==
    IF content = << >> THEN << >>
    ELSE (IF Head(content).type = "text" THEN <<Head(content).text>> ELSE << >>)
         \o TextBlocks(Tail(content))

\* "\n".join(texts)
RECURSIVE JoinLines(_)
JoinLines(texts) ==
    IF texts = << >> THEN EmptyStr
    ELSE IF Len(texts) = 1 THEN texts[1]
    ELSE texts[1] \o <<NL>> \o JoinLines(Tail(texts))

\* Whether the backward walk passes over an entry: json.loads raised, the
\* type or the message's role is not "assistant", or no text block is found.
PassedOver(entry) ==
    \/ entry.json # "ok"
    \/ entry.type # "assistant"
    \/ entry.role # "assistant"
    \/ TextBlocks(entry.content) = << >>

\* The backward walk of extract_last_assistant_text, from line k down.
RECURSIVE WalkBack(_, _)
WalkBack(lines, k) ==
    IF k < 1 THEN EmptyStr
    ELSE IF PassedOver(lines[k]) THEN WalkBack(lines, k - 1)
    ELSE JoinLines(TextBlocks(lines[k].content))

extract_last_assistant_text(transcript_path, transcript) ==
    IF transcript_path = "" \/ ~transcript.exists THEN EmptyStr
    ELSE LET window == LastN(transcript.lines, TAIL_LINES)
         IN  WalkBack(window, Len(window))

\* counts[name] = counts.get(name, 0) + 1, counts a sequence of <<name, n>> in
\* insertion order.
Increment(counts, name) ==
    IF \E k \in 1..Len(counts) : counts[k][1] = name
    THEN [k \in 1..Len(counts) |->
             IF counts[k][1] = name THEN <<name, counts[k][2] + 1>> ELSE counts[k]]
    ELSE Append(counts, <<name, 1>>)

RECURSIVE CountRefs(_, _)
CountRefs(refs, counts) ==
    IF refs = << >> THEN counts
    ELSE CountRefs(Tail(refs), Increment(counts, Head(refs)))

RECURSIVE CountLines(_, _)
CountLines(lines, counts) ==
    IF lines = << >> THEN counts
    ELSE CountLines(Tail(lines), CountRefs(Head(lines).refs, counts))

\* A max that keeps the last key of the greatest count.
MaxKeyLast(counts) ==
    LET k == CHOOSE i \in 1..Len(counts) :
                 /\ \A j \in 1..Len(counts) : counts[j][2] <= counts[i][2]
                 /\ \A j \in (i + 1)..Len(counts) : counts[j][2] < counts[i][2]
    IN  counts[k][1]

\* max(counts, key=counts.get): the first key, in insertion order, of the
\* greatest count.
MaxKey(counts) ==
    LET k == CHOOSE i \in 1..Len(counts) :
                 /\ \A j \in 1..Len(counts) : counts[j][2] <= counts[i][2]
                 /\ \A j \in 1..(i - 1) : counts[j][2] < counts[i][2]
    IN  counts[k][1]

detect_project(transcript_path, transcript, config) ==
    LET pattern == Get(Get(config, "project", EmptyDict), "path_pattern", "")
        counts == CountLines(transcript.lines, << >>)
    IN  IF pattern = "" \/ transcript_path = "" \/ ~transcript.exists THEN EmptyStr
        ELSE IF counts # << >> THEN MaxKey(counts) ELSE EmptyStr

(***************************************************************************)
(* router.py: project resolution and the tab title                         *)
(***************************************************************************)
claude == <<"c", "l", "a", "u", "d", "e">>

\* cwd.rstrip("/")
RECURSIVE RStripSlash(_)
RStripSlash(s) ==
    IF s # EmptyStr /\ s[Len(s)] = "/" THEN RStripSlash(SubSeq(s, 1, Len(s) - 1))
    ELSE s

\* os.path.basename(p): what follows the last "/".
RECURSIVE Basename(_)
Basename(p) ==
    IF Contains(p, "/")
    THEN Basename(Drop(p, CHOOSE k \in 1..Len(p) : p[k] = "/"))
    ELSE p

cwd_label(event) ==
    LET cwd == Get(event, "cwd", EmptyStr) IN
    IF cwd = EmptyStr THEN claude
    ELSE IF Basename(RStripSlash(cwd)) # EmptyStr THEN Basename(RStripSlash(cwd))
    ELSE claude

\* resolve_project with the fallback tried before the transcript.
resolve_project_FallbackFirst(event, transcript, config) ==
    LET detected == detect_project(Get(event, "transcript_path", ""), transcript, config)
        fallback == Get(Get(config, "project", EmptyDict), "fallback", EmptyStr)
    IN  IF fallback # EmptyStr THEN fallback
        ELSE IF detected # EmptyStr THEN detected
        ELSE cwd_label(event)

resolve_project(event, transcript, config) ==
    LET detected == detect_project(Get(event, "transcript_path", ""), transcript, config)
        fallback == Get(Get(config, "project", EmptyDict), "fallback", EmptyStr)
    IN  IF detected # EmptyStr THEN detected
        ELSE IF fallback # EmptyStr THEN fallback
        ELSE cwd_label(event)

\* tab(project, symbol, detail, unseen): the title handed to set_tab_title.
tab(project, symbol, detail, unseen) ==
    [set |-> TRUE, project |-> project, symbol |-> symbol, detail |-> detail,
     unseen |-> unseen]

NoTab == [set |-> FALSE, project |-> EmptyStr, symbol |-> "", detail |-> EmptyStr,
          unseen |-> FALSE]

(***************************************************************************)
(* notify.py: the sound sink                                               *)
(***************************************************************************)
\* The wav files present in SOUNDS_DIR.
InstalledSounds == {"error.wav", "done.wav"}

\* play_sound(filename): the file afplay is started on, "" when none is.
play_sound(filename) ==
    IF filename = "" THEN ""
    ELSE IF filename \in InstalledSounds THEN filename
    ELSE ""

(***************************************************************************)
(* The inputs the model draws from                                         *)
(***************************************************************************)
NumProcs == 2
Procs == 1..NumProcs

TranscriptPaths == {"tA", "tB"}

\* The files of STATE_DIR: a file is named by the first 12 hex digits of the
\* md5 of a transcript path.  The map from paths to names is many to one, so
\* the names of two paths are distinct or the same; which, is part of the
\* sessions of a run.
StateFiles == {"3f1c0a9d2b7e.json", "a4e80b61c5d2.json"}

HANDLERS == {"SessionStart", "UserPromptSubmit", "Stop", "Notification"}

\* What the host writes to the router's stdin: text that is not JSON, a JSON
\* value that is not an object, or an object (blank input is read as {}).
StdinKinds == {"malformed", "nonobject", "object"}

\* The hook names the host sends: those of HANDLERS, one the router does not
\* know, and none ("").
HookNames == HANDLERS \cup {"", "PreToolUse"}

\* A lookup that falls back on the first handler of the table.
HandlerOrFirst(hook_event) ==
    IF hook_event \in HANDLERS THEN hook_event ELSE "SessionStart"

\* HANDLERS.get(hook_event): the handler's name, "" when there is none.
Handler(hook_event) == IF hook_event \in HANDLERS THEN hook_event ELSE ""

\* The hook names main hands to the handler.
HandledBy(handler) == {name \in HookNames : Handler(name) = handler}

\* event.get("hook_event_name", "")
HookName(event) == Get(event, "hook_event_name", "")

pA == <<"p", "A">>
pB == <<"p", "B">>
fb == <<"f", "b">>

Cwds == {EmptyStr, <<"/", "w", "/", "c", "d", "/">>}

TextBlock(text) == [type |-> "text", text |-> text]
ToolUse == [type |-> "tool_use", text |-> EmptyStr]

Line(json, type, role, content, refs) ==
    [json |-> json, type |-> type, role |-> role, content |-> content, refs |-> refs]

AssistantLine(content, refs) == Line("ok", "assistant", "assistant", content, refs)
UserLine(refs) == Line("ok", "user", "user", <<TextBlock(<<"h", "i", "?">>)>>, refs)
GarbageLine == Line("bad", "", "", << >>, << >>)

File(lines) == [exists |-> TRUE, lines |-> lines]

\* "ok", one reference to pA
DoneTranscript == File(<<AssistantLine(<<TextBlock(<<"o", "k">>)>>, <<pA>>)>>)

\* "see a/b" and "go?" in one message after a tool call; pB referenced twice,
\* pA once; an unparsable last line
QuestionTranscript ==
    File(<<UserLine(<<pB>>),
           AssistantLine(<<ToolUse, TextBlock(<<"s", "e", "e", " ", "a", "/", "b">>),
                           TextBlock(<<"g", "o", "?">>)>>, <<pA, pB>>),
           GarbageLine>>)

\* "OK?" followed by an assistant message without text; no reference
ToolTranscript ==
    File(<<AssistantLine(<<TextBlock(<<"O", "K", "?">>)>>, << >>),
           AssistantLine(<<ToolUse>>, << >>)>>)

\* "hm", one reference to pB
PlainTranscript ==
    File(<<UserLine(<< >>), AssistantLine(<<TextBlock(<<"h", "m">>)>>, <<pB>>)>>)

Session(cwd, transcript, key) == [cwd |-> cwd, transcript |-> transcript, key |-> key]

\* The sessions of a run: for each transcript path, the working directory of
\* its events, the transcript file, and the name of its state file.  In the
\* last run the two paths have the same 12 hex digits.
SessionTables ==
    { ("tA" :> Session(<<"/", "w", "/", "c", "d", "/">>, QuestionTranscript,
                       "3f1c0a9d2b7e.json")
       @@ "tB" :> Session(EmptyStr, DoneTranscript, "a4e80b61c5d2.json")),
      ("tA" :> Session(EmptyStr, ToolTranscript, "3f1c0a9d2b7e.json")
       @@ "tB" :> Session(<<"/", "w", "/", "c", "d", "/">>, PlainTranscript,
                          "a4e80b61c5d2.json")),
      ("tA" :> Session(<<"/">>, DoneTranscript, "3f1c0a9d2b7e.json")
       @@ "tB" :> Session(<<"/", "w", "/", "c", "d", "/">>, NoTranscript,
                          "a4e80b61c5d2.json")),
      ("tA" :> Session(<<"/", "w", "/", "c", "d", "/">>, QuestionTranscript,
                       "3f1c0a9d2b7e.json")
       @@ "tB" :> Session(EmptyStr, DoneTranscript, "3f1c0a9d2b7e.json")) }

\* The glyphs of the tab title, by name.
middot == "middot"
cycle == "cycle"
pause == "pause"
check == "check"

FullConfig ==
    [tiers |-> (critical :> [patterns |-> <<BadPat, Pat(FALSE, <<"?">>, TRUE)>>,
                             symbol |-> "bang", sound |-> "error.wav"]
                @@ complete :> [patterns |-> <<Pat(TRUE, <<"o", "k">>, FALSE)>>,
                                symbol |-> "tick", sound |-> "done.wav"]
                @@ update :> [patterns |-> <<Pat(FALSE, EmptyStr, FALSE)>>,
                              symbol |-> "dot"]),
     project |-> [path_pattern |-> "/projects/([^/]+)/", fallback |-> EmptyStr],
     states |-> [working |-> "gear"]]

PlainConfig ==
    [tiers |-> (critical :> [patterns |-> <<Pat(TRUE, <<"o", "k", "?">>, TRUE)>>]
                @@ complete :> [patterns |-> <<Pat(FALSE, <<"k">>, FALSE)>>,
                                sound |-> "missing.wav"]),
     project |-> [fallback |-> fb]]

\* The configuration files: [exists, table].
ConfigFiles ==
    { [exists |-> FALSE, table |-> EmptyDict],
      [exists |-> TRUE, table |-> FullConfig],
      [exists |-> TRUE, table |-> PlainConfig] }

\* An event dict: the keys with an empty value are left out.
EventDict(name, path, cwd, ntype) ==
    (IF name = "" THEN EmptyDict ELSE [hook_event_name |-> name])
    @@ (IF path = "" THEN EmptyDict ELSE [transcript_path |-> path])
    @@ (IF cwd = EmptyStr THEN EmptyDict ELSE [cwd |-> cwd])
    @@ (IF ntype = "" THEN EmptyDict ELSE [notification_type |-> ntype])

NotificationTypes == {"permission_prompt", "idle_prompt", "auth_success"}

(***************************************************************************)
(* The state                                                               *)
(*                                                                         *)
(* configFile  the configuration file, [exists, table]                     *)
(* sessions    for each transcript path, its working directory and its     *)
(*             transcript file                                             *)
(* fs          the state files under STATE_DIR: name -> [exists, data]     *)
(* pc          where each process is: "idle", or between two system calls  *)
(*             of mark_seen or write_state                                 *)
(* loc         each process's local variables                              *)
(* hist        a history variable: [on, last, prev].  While on, the        *)
(*             invocations run one at a time, last is what the invocation  *)
(*             that ended last was given, returned and put out, with the   *)
(*             state files as they were when it started, and prev the name *)
(*             and path of the one before.                                 *)
(*                                                                         *)
(* arg, result the argument and the result of a function that is applied   *)
(*             on its own (the specifications of the pure functions)       *)
(*                                                                         *)
(* A step is one system call on a state file (the open and read of a       *)
(* reader, the truncating open of a writer, the write of the buffered text *)
(* at close, the remove) with the local computation before and after it:   *)
(* main's reading of stdin and of the configuration, the handler's reading *)
(* of the transcript, the sound and the tab title.  json.dump's text is    *)
(* shorter than the file buffer and reaches the file in one write at       *)
(* offset 0.  os.makedirs leaves STATE_DIR in place and its effect is not  *)
(* part of the state.                                                      *)
(***************************************************************************)
VARIABLES configFile, sessions, fs, pc, loc, hist, arg, result

vars == <<configFile, sessions, fs, pc, loc, hist, arg, result>>

\* What no step of a hook invocation changes.
env == <<configFile, sessions, arg, result>>

NoArg == [text |-> EmptyStr, config |-> EmptyDict]

NoResult == [done |-> FALSE, value |-> EmptyStr]

\* _state_path: the state file of a transcript path.
state_path(transcript_path) == sessions[transcript_path].key

NoFile == [exists |-> FALSE, data |-> EmptyStr]

NoFiles == [f \in StateFiles |-> NoFile]

needs_input == <<"n", "e", "e", "d", "s", " ", "i", "n", "p", "u", "t">>
done == <<"d", "o", "n", "e">>
idle == <<"i", "d", "l", "e">>
approve == <<"a", "p", "p", "r", "o", "v", "e", "?">>
ready == <<"r", "e", "a", "d", "y">>
working == <<"w", "o", "r", "k", "i", "n", "g">>
starting == <<"s", "t", "a", "r", "t", "i", "n", "g">>

CONTEXT_MAX_LEN == 100
DETAIL_MAX_LEN == 40

IdleLocals ==
    [event |-> EmptyDict, state |-> EmptyState, tier |-> EmptyStr,
     project |-> EmptyStr, detail |-> EmptyStr, sound |-> "", title |-> NoTab,
     orphan |-> FALSE, before |-> NoFiles, stdin |-> "object"]

NoSummary ==
    [name |-> "none", path |-> "", ntype |-> "", stdin |-> "object", status |-> 0,
     ret |-> EmptyState,
     tier |-> EmptyStr, project |-> EmptyStr, detail |-> EmptyStr, sound |-> "",
     title |-> NoTab, before |-> NoFiles]

NoPrev == [name |-> "none", path |-> ""]

InitState(recording) ==
    /\ configFile \in ConfigFiles
    /\ sessions \in SessionTables
    /\ fs = NoFiles
    /\ pc = [p \in Procs |-> "idle"]
    /\ loc = [p \in Procs |-> IdleLocals]
    /\ hist = [on |-> recording, last |-> NoSummary, prev |-> NoPrev]
    /\ arg = NoArg
    /\ result = NoResult

\* The events named name that the host may send.
Events(name) ==
    { EventDict(name, t, sessions[t].cwd, nt) :
        t \in TranscriptPaths,
        nt \in IF name = "Notification" THEN NotificationTypes ELSE {""} }
    \cup
    { EventDict(name, "", c, nt) :
        c \in Cwds,
        nt \in IF name = "Notification" THEN NotificationTypes ELSE {""} }

\* The transcript file at the event's transcript path.
TranscriptOf(event) ==
    IF Get(event, "transcript_path", "") = "" THEN NoTranscript
    ELSE sessions[Get(event, "transcript_path", "")].transcript

\* The locals of an invocation that starts on event.
StartLocals(event) ==
    [IdleLocals EXCEPT !.event = event,
                       !.before = IF hist.on THEN fs ELSE NoFiles]

TranscriptPath(p) == Get(loc[p].event, "transcript_path", "")

\* Whether the host may start an invocation as process p.  While the history
\* is on, the invocations run one at a time, each as process 1.
Startable(p) == pc[p] = "idle" /\ (hist.on => p = 1)

\* open(path, "w"): the file exists and is empty.
Truncated(files, f) == [files EXCEPT ![f] = [exists |-> TRUE, data |-> EmptyStr]]

\* write(2) of text at offset 0 of a file holding old.
WriteAt0(old, text) == text \o Drop(old, Len(text))

\* The close, were nothing dumped before it: the file stays as the open left it.
DumpedNothing(files, f, state, orphan) == files

\* The close of a file opened by open(path, "w") after json.dump(state, f):
\* the text goes to the file the descriptor names, which is the file at the
\* path unless that was removed since the open.
Dumped(files, f, state, orphan) ==
    IF orphan THEN files
    ELSE [files EXCEPT ![f] = [exists |-> TRUE,
                               data |-> WriteAt0(files[f].data, JsonDump(state))]]

\* A clear that removes nothing.
RemovedNothing(files, f) == files

\* A clear that empties the file in place of removing it.
RemovedByTruncation(files, f) == Truncated(files, f)

\* os.remove(path); FileNotFoundError is passed over.
Removed(files, f) == [files EXCEPT ![f] = NoFile]

\* The processes that hold f open for writing lose the path to their file.
Orphaned(locs, f) ==
    [q \in Procs |->
        IF /\ pc[q] \in {"mark_seen_dump", "write_state_dump"}
           /\ state_path(Get(locs[q].event, "transcript_path", "")) = f
        THEN [locs[q] EXCEPT !.orphan = TRUE]
        ELSE locs[q]]

\* What is kept of an invocation that ends.
Summary(l, name, status, ret, sound, title) ==
    [name |-> name,
     path |-> Get(l.event, "transcript_path", ""),
     ntype |-> Get(l.event, "notification_type", ""),
     stdin |-> l.stdin,
     status |-> status, ret |-> ret,
     tier |-> l.tier, project |-> l.project, detail |-> l.detail,
     sound |-> sound, title |-> title, before |-> l.before]

Recorded(h, s) ==
    IF h.on
    THEN [h EXCEPT !.last = s,
                   !.prev = [name |-> h.last.name, path |-> h.last.path]]
    ELSE h

\* The end of process p's invocation, its locals being l.
Finish(p, l, locs, name, status, ret, sound, title, files) ==
    /\ hist' = Recorded(hist, Summary(l, name, status, ret, sound, title))
    /\ pc' = [pc EXCEPT ![p] = "idle"]
    /\ loc' = [locs EXCEPT ![p] = IdleLocals]
    /\ fs' = files

(***************************************************************************)
(* router.py: main, for the invocations that reach no handler              *)
(***************************************************************************)
main(p) ==
    /\ Startable(p)
    /\ \E stdin \in StdinKinds, name \in HookNames : \E event \in Events(name) :
          LET l == [StartLocals(event) EXCEPT !.stdin = stdin]
          IN  IF stdin = "malformed"
              THEN \* json.loads raises: return
                   /\ event = EmptyDict
                   /\ Finish(p, l, loc, "", 0, EmptyState, "", NoTab, fs)
              ELSE IF stdin = "nonobject"
              THEN \* load_config or event.get raises
                   /\ event = EmptyDict
                   /\ Finish(p, l, loc, "", 1, EmptyState, "", NoTab, fs)
              ELSE IF ~configFile.exists
              THEN \* load_config raises FileNotFoundError
                   Finish(p, l, loc, name, 1, EmptyState, "", NoTab, fs)
              ELSE /\ Handler(name) = ""
                   /\ Finish(p, l, loc, name, 0, EmptyState, "", NoTab, fs)
    /\ UNCHANGED env

(***************************************************************************)
(* state.py: read_state, called on its own                                 *)
(***************************************************************************)
\* What read_state(transcript_path) returns when the files are as in files.
ReadState(files, transcript_path) ==
    LET file == files[state_path(transcript_path)]
    IN  IF transcript_path = "" THEN EmptyState
        ELSE IF ~file.exists \/ ~JsonLoad(file.data).ok THEN EmptyState
        ELSE JsonLoad(file.data).state

read_state(p) ==
    /\ Startable(p)
    /\ \E t \in TranscriptPaths \cup {""} :
          Finish(p, StartLocals(EventDict("", t, EmptyStr, "")), loc, "read_state",
                 0, ReadState(fs, t), "", NoTab, fs)
    /\ UNCHANGED env

(***************************************************************************)
(* router.py: handle_session_start, with state.py: clear_state             *)
(***************************************************************************)
handle_session_start(p) ==
    /\ Startable(p)
    /\ configFile.exists
    /\ \E name \in HandledBy("SessionStart") : \E event \in Events(name) :
          LET l == StartLocals(event)
              t == Get(event, "transcript_path", "")
              symbol == Get(Get(configFile.table, "states", EmptyDict), "starting", cycle)
              title == tab(cwd_label(event), symbol, starting, FALSE)
          IN  IF t = ""
              THEN Finish(p, l, loc, HookName(event), 0, EmptyState, "", title, fs)
              ELSE Finish(p, l, Orphaned(loc, state_path(t)), HookName(event), 0,
                          EmptyState, "", title, Removed(fs, state_path(t)))
    /\ UNCHANGED env

(***************************************************************************)
(* router.py: handle_user_prompt, with state.py: mark_seen                 *)
(***************************************************************************)
\* The tab handle_user_prompt sets once mark_seen has returned.
WorkingTab(event) ==
    tab(resolve_project(event, TranscriptOf(event), configFile.table),
        Get(Get(configFile.table, "states", EmptyDict), "working", cycle),
        working, FALSE)

\* A mark_seen that hands back the record as unseen from every return.
MarkSeenReturnUnseen(state) == [state EXCEPT !.seen = FALSE]

\* The dict mark_seen returns: return state.
MarkSeenReturn(state) == state

\* state["seen"] = True
MarkedSeen(state) == [state EXCEPT !.seen = TRUE]

\* handle_user_prompt up to mark_seen's early returns: the read of the record.
handle_user_prompt(p) ==
    /\ Startable(p)
    /\ configFile.exists
    /\ \E name \in HandledBy("UserPromptSubmit") : \E event \in Events(name) :
          LET l0 == StartLocals(event)
              t == Get(event, "transcript_path", "")
              file == fs[state_path(t)]
              state == JsonLoad(file.data).state
          IN  IF t = ""
              THEN Finish(p, l0, loc, HookName(event), 0, EmptyState, "",
                          WorkingTab(event), fs)
              ELSE IF ~file.exists \/ ~JsonLoad(file.data).ok
              THEN Finish(p, l0, loc, HookName(event), 0, EmptyState, "",
                          WorkingTab(event), fs)
              ELSE IF state.seen
              THEN Finish(p, l0, loc, HookName(event), 0, MarkSeenReturn(state),
                          "", WorkingTab(event), fs)
              ELSE /\ loc' = [loc EXCEPT ![p] =
                                 [l0 EXCEPT !.state = MarkedSeen(state)]]
                   /\ pc' = [pc EXCEPT ![p] = "mark_seen_open"]
                   /\ UNCHANGED <<fs, hist>>
    /\ UNCHANGED env

\* mark_seen: open(path, "w").
mark_seen_open(p) ==
    /\ pc[p] = "mark_seen_open"
    /\ fs' = Truncated(fs, state_path(TranscriptPath(p)))
    /\ loc' = [loc EXCEPT ![p].orphan = FALSE]
    /\ pc' = [pc EXCEPT ![p] = "mark_seen_dump"]
    /\ UNCHANGED <<env, hist>>

\* mark_seen: json.dump(state, f), the close, and return state; then
\* handle_user_prompt's tab.
mark_seen_dump(p) ==
    /\ pc[p] = "mark_seen_dump"
    /\ LET l == loc[p]
       IN  Finish(p, l, loc, HookName(l.event), 0, MarkSeenReturn(l.state), "",
                  WorkingTab(l.event),
                  Dumped(fs, state_path(TranscriptPath(p)), l.state, l.orphan))
    /\ UNCHANGED env

(***************************************************************************)
(* router.py: handle_stop and handle_notification, with state.py:          *)
(* write_state                                                             *)
(***************************************************************************)
\* detail of handle_stop
StopDetail(tier, context) ==
    IF tier = critical
    THEN (IF context # EmptyStr THEN Take(context, DETAIL_MAX_LEN) ELSE needs_input)
    ELSE IF tier = complete THEN done
    ELSE idle

\* An unseen that holds for every tier.
StopUnseenAlways(tier) == TRUE

\* An unseen that leaves the critical tier out.
StopUnseenCompleteOnly(tier) == tier = complete

\* unseen of handle_stop
StopUnseen(tier) == tier \in {critical, complete}

\* handle_stop up to write_state's open.
handle_stop(p) ==
    /\ Startable(p)
    /\ configFile.exists
    /\ \E name \in HandledBy("Stop") : \E event \in Events(name) :
          LET config == configFile.table
              t == Get(event, "transcript_path", "")
              project == resolve_project(event, TranscriptOf(event), config)
              text == extract_last_assistant_text(t, TranscriptOf(event))
              tier == classify_priority(text, config)
              tier_config == TierConfig(config, tier)
              symbol == Get(tier_config, "symbol", middot)
              context == extract_context(text, CONTEXT_MAX_LEN)
              detail == StopDetail(tier, context)
              unseen == StopUnseen(tier)
              l == [StartLocals(event) EXCEPT
                       !.tier = tier, !.project = project, !.detail = detail,
                       !.sound = Get(tier_config, "sound", ""),
                       !.title = tab(project, symbol, detail, unseen)]
          IN  IF unseen /\ t # ""
              THEN /\ loc' = [loc EXCEPT ![p] = l]
                   /\ pc' = [pc EXCEPT ![p] = "write_state_open"]
                   /\ UNCHANGED <<fs, hist>>
              ELSE Finish(p, l, loc, HookName(event), 0, EmptyState, play_sound(l.sound),
                          l.title, fs)
    /\ UNCHANGED env

\* A test that takes the idle prompt for a permission prompt too.
IsPromptNotification(notification_type) ==
    notification_type \in {"permission_prompt", "idle_prompt"}

\* Whether handle_notification writes the state and plays the sound.
IsPermissionPrompt(notification_type) == notification_type = "permission_prompt"

\* handle_notification up to write_state's open.
handle_notification(p) ==
    /\ Startable(p)
    /\ configFile.exists
    /\ \E name \in HandledBy("Notification") : \E event \in Events(name) :
          LET config == configFile.table
              t == Get(event, "transcript_path", "")
              project == resolve_project(event, TranscriptOf(event), config)
              notification_type == Get(event, "notification_type", "")
              states == Get(config, "states", EmptyDict)
              lp == [StartLocals(event) EXCEPT
                        !.tier = critical, !.project = project, !.detail = approve,
                        !.sound = Get(TierConfig(config, critical), "sound",
                                      "error.wav"),
                        !.title = tab(project, Get(states, "permission", pause),
                                      approve, TRUE)]
              ln == [StartLocals(event) EXCEPT !.project = project]
          IN  IF IsPermissionPrompt(notification_type)
              THEN IF t # ""
                   THEN /\ loc' = [loc EXCEPT ![p] = lp]
                        /\ pc' = [pc EXCEPT ![p] = "write_state_open"]
                        /\ UNCHANGED <<fs, hist>>
                   ELSE Finish(p, lp, loc, HookName(event), 0, EmptyState,
                               play_sound(lp.sound), lp.title, fs)
              ELSE IF notification_type = "idle_prompt"
              THEN Finish(p, ln, loc, HookName(event), 0, EmptyState, "",
                          tab(project, Get(states, "idle", check), ready, TRUE), fs)
              ELSE Finish(p, ln, loc, HookName(event), 0, EmptyState, "",
                          tab(project, Get(states, "working", cycle), working, FALSE),
                          fs)
    /\ UNCHANGED env

\* write_state: open(path, "w").
write_state_open(p) ==
    /\ pc[p] = "write_state_open"
    /\ fs' = Truncated(fs, state_path(TranscriptPath(p)))
    /\ loc' = [loc EXCEPT ![p].orphan = FALSE]
    /\ pc' = [pc EXCEPT ![p] = "write_state_dump"]
    /\ UNCHANGED <<env, hist>>

\* write_state: json.dump(state, f) and the close; then the handler's
\* play_sound and tab.
write_state_dump(p) ==
    /\ pc[p] = "write_state_dump"
    /\ LET l == loc[p]
           state == StateDict(FALSE, l.tier, l.project, l.detail)
       IN  Finish(p, l, loc, HookName(l.event), 0, EmptyState,
                  play_sound(l.sound), l.title,
                  Dumped(fs, state_path(TranscriptPath(p)), state, l.orphan))
    /\ UNCHANGED env

(***************************************************************************)
(* The specifications                                                      *)
(***************************************************************************)
Step(p) ==
    \/ main(p)
    \/ read_state(p)
    \/ handle_session_start(p)
    \/ handle_user_prompt(p)
    \/ mark_seen_open(p)
    \/ mark_seen_dump(p)
    \/ handle_stop(p)
    \/ handle_notification(p)
    \/ write_state_open(p)
    \/ write_state_dump(p)

Next == \E p \in Procs : Step(p)

\* The hook invocations run as the host starts them, in any interleaving.
Init == InitState(FALSE)

Spec == Init /\ [][Next]_vars

\* One invocation at a time: none starts before the last has ended.  The
\* history is recorded.
InitSeq == InitState(TRUE)

SpecSeq == InitSeq /\ [][Next]_vars

(***************************************************************************)
(* classify_priority applied on its own, to every text of at most          *)
(* MaxTextLen characters and every configuration whose tiers hold a        *)
(* pattern list of PatternLists.                                           *)
(***************************************************************************)
MaxTextLen == 2

TextChars == {"a", "A", "?", NL}

Texts == UNION {[1..n -> TextChars] : n \in 0..MaxTextLen}

Patterns ==
    { Pat(FALSE, EmptyStr, FALSE), Pat(FALSE, <<"a">>, FALSE),
      Pat(FALSE, <<"?">>, FALSE), Pat(TRUE, <<"a">>, FALSE),
      Pat(FALSE, <<"?">>, TRUE), Pat(TRUE, EmptyStr, TRUE) }

PatternLists ==
    {<< >>, <<BadPat>>} \cup {<<pt>> : pt \in Patterns}
    \cup {<<BadPat, Pat(FALSE, <<"a">>, FALSE)>>, <<BadPat, Pat(FALSE, <<"?">>, TRUE)>>}

\* The table of a tier with these patterns; a tier without patterns has none.
TierTable(tier, patterns) ==
    IF patterns = << >> THEN EmptyDict ELSE tier :> [patterns |-> patterns]

ClassifyConfigs ==
    { [tiers |-> TierTable(critical, l1) @@ TierTable(complete, l2)
                 @@ TierTable(update, l3)] :
        l1 \in PatternLists, l2 \in PatternLists, l3 \in PatternLists }

InitClassify ==
    /\ configFile = [exists |-> FALSE, table |-> EmptyDict]
    /\ sessions = [t \in TranscriptPaths |-> Session(EmptyStr, NoTranscript, "3f1c0a9d2b7e.json")]
    /\ fs = NoFiles
    /\ pc = [p \in Procs |-> "idle"]
    /\ loc = [p \in Procs |-> IdleLocals]
    /\ hist = [on |-> FALSE, last |-> NoSummary, prev |-> NoPrev]
    /\ arg \in [text : Texts, config : ClassifyConfigs]
    /\ result = NoResult

Classify ==
    /\ ~result.done
    /\ result' = [done |-> TRUE, value |-> classify_priority(arg.text, arg.config)]
    /\ UNCHANGED <<configFile, sessions, fs, pc, loc, hist, arg>>

SpecClassify == InitClassify /\ [][Classify]_vars

(***************************************************************************)
(* The claims                                                              *)
(***************************************************************************)
(* The main variables of a specification that applies one function on its  *)
(* own.                                                                    *)
(***************************************************************************)
InitAlone ==
    /\ configFile = [exists |-> FALSE, table |-> EmptyDict]
    /\ sessions = [t \in TranscriptPaths |-> Session(EmptyStr, NoTranscript, "3f1c0a9d2b7e.json")]
    /\ fs = NoFiles
    /\ pc = [p \in Procs |-> "idle"]
    /\ loc = [p \in Procs |-> IdleLocals]
    /\ hist = [on |-> FALSE, last |-> NoSummary, prev |-> NoPrev]
    /\ result = NoResult

\* The function's result, its argument being arg.
Applied(value) ==
    /\ ~result.done
    /\ result' = [done |-> TRUE, value |-> value]
    /\ UNCHANGED <<configFile, sessions, fs, pc, loc, hist, arg>>

(***************************************************************************)
(* detect_project applied on its own, to every transcript of at most       *)
(* MaxLines lines, each holding at most MaxRefs matches of the path        *)
(* pattern, with and without a pattern, a path and a file.                 *)
(***************************************************************************)
MaxLines == 2

MaxRefs == 4

RefNames == {pA, pB}

RefLists == UNION {[1..n -> RefNames] : n \in 0..MaxRefs}

RefTranscripts ==
    UNION {[1..n -> {UserLine(refs) : refs \in RefLists}] : n \in 0..MaxLines}

ProjectConfigs == {EmptyDict, [project |-> [path_pattern |-> "/([^/]+)/"]]}

InitDetect ==
    /\ InitAlone
    /\ arg \in [path : {"", "tA"},
                transcript : {NoTranscript} \cup {File(ls) : ls \in RefTranscripts},
                config : ProjectConfigs]

Detect == Applied(detect_project(arg.path, arg.transcript, arg.config))

SpecDetect == InitDetect /\ [][Detect]_vars

(***************************************************************************)
(* extract_context applied on its own, to every text of at most            *)
(* MaxContextLen characters and the lengths of MaxLens.                    *)
(***************************************************************************)
MaxContextLen == 5

ContextChars == {"a", "?", "/", ".", " ", NL}

ContextTexts == UNION {[1..n -> ContextChars] : n \in 0..MaxContextLen}

MaxLens == {2, CONTEXT_MAX_LEN}

InitContext ==
    /\ InitAlone
    /\ arg \in [text : ContextTexts, max_len : MaxLens]

Context == Applied(extract_context(arg.text, arg.max_len))

SpecContext == InitContext /\ [][Context]_vars

(***************************************************************************)
(* extract_last_assistant_text applied on its own.  A transcript is one    *)
(* line or none, then filler lines that hold no assistant text, then at    *)
(* most MaxTailLines lines, so that its first line falls inside or outside *)
(* the TAIL_LINES lines the function scans.                                *)
(***************************************************************************)
MaxTailLines == 2

LineKinds ==
    { AssistantLine(<<TextBlock(<<"x">>)>>, << >>),
      AssistantLine(<<TextBlock(<<"a">>), ToolUse, TextBlock(<<"b">>)>>, << >>),
      AssistantLine(<<TextBlock(EmptyStr)>>, << >>),
      AssistantLine(<<ToolUse>>, << >>),
      AssistantLine(<< >>, << >>),
      Line("ok", "assistant", "user", <<TextBlock(<<"u">>)>>, << >>),
      UserLine(<< >>),
      GarbageLine }

Fillers == {UserLine(<< >>), GarbageLine, AssistantLine(<<ToolUse>>, << >>)}

\* The numbers of filler lines: none, and those around the scanned length.
FillerCounts == {0} \cup ((TAIL_LINES - MaxTailLines - 1)..TAIL_LINES)

TailTranscripts ==
    { head \o [k \in 1..n |-> filler] \o tail :
        head \in {<< >>} \cup {<<l>> : l \in LineKinds},
        filler \in Fillers,
        n \in FillerCounts,
        tail \in UNION {[1..m -> LineKinds] : m \in 0..MaxTailLines} }

InitLastText ==
    /\ InitAlone
    /\ arg \in [path : {"", "tA"},
                transcript : {NoTranscript} \cup {File(ls) : ls \in TailTranscripts}]

LastText == Applied(extract_last_assistant_text(arg.path, arg.transcript))

SpecLastText == InitLastText /\ [][LastText]_vars

(***************************************************************************)
(* resolve_project applied on its own, to events with every working        *)
(* directory of at most MaxCwdLen characters, with and without a           *)
(* transcript path, a transcript, matches in it, a pattern and a fallback. *)
(***************************************************************************)
MaxCwdLen == 3

CwdChars == {"/", "a", "b"}

CwdStrings == UNION {[1..n -> CwdChars] : n \in 0..MaxCwdLen}

ResolveTranscripts ==
    { NoTranscript, File(<< >>), File(<<UserLine(<< >>)>>),
      File(<<UserLine(<<pA>>)>>), File(<<UserLine(<<pB, pA>>), UserLine(<<pB>>)>>) }

ResolveConfigs ==
    { EmptyDict,
      [project |-> [path_pattern |-> "/([^/]+)/"]],
      [project |-> [fallback |-> fb]],
      [project |-> [path_pattern |-> "/([^/]+)/", fallback |-> fb]],
      [project |-> [path_pattern |-> "/([^/]+)/", fallback |-> EmptyStr]] }

InitResolve ==
    /\ InitAlone
    /\ arg \in [event : {EventDict("Stop", t, cwd, "") :
                            t \in {"", "tA"}, cwd \in CwdStrings},
                transcript : ResolveTranscripts,
                config : ResolveConfigs]

Resolve == Applied(resolve_project(arg.event, arg.transcript, arg.config))

SpecResolve == InitResolve /\ [][Resolve]_vars

(***************************************************************************)
\* What a reader finds in a file that is no record cut short: no file, or the
\* whole text of one record.
WholeRecord(file) == ~file.exists \/ JsonLoad(file.data).ok

\* No invocation is under way: the files are as the last invocation left them.
Quiet == \A p \in Procs : pc[p] = "idle"

\* The last invocation was the hook name, on a transcript path that is not
\* empty, and it reached its handler.
LastWas(name) ==
    /\ Quiet
    /\ hist.last.name = name
    /\ hist.last.path # ""
    /\ hist.last.title.set

\* The invocation before the last was the hook name on the last one's path.
PrevWas(name) == hist.prev.name = name /\ hist.prev.path = hist.last.path

\* The record stored for the last invocation's path before it, and after it.
RecordBefore == ReadState(hist.last.before, hist.last.path)

RecordAfter == ReadState(fs, hist.last.path)

\* The tier handle_stop gives the session of transcript path t.
StopTier(t) ==
    classify_priority(extract_last_assistant_text(t, sessions[t].transcript),
                      configFile.table)

\* C1: under any interleaving of hook invocations, a reader (read_state, or
\* the read of mark_seen) never finds a partially written record: whenever an
\* invocation can start, and so read, every state file is either absent or
\* holds the complete text of one record.
C1_ReadersSeeWholeRecords ==
    \A f \in StateFiles :
        (\E p \in Procs : Startable(p)) => WholeRecord(fs[f])

\* C2: when mark_seen finds a stored record with seen = false, it stores the
\* record with seen = true and returns the record as it was before: seen =
\* false, and the tier, project and detail that were stored.
C2_MarkSeenReturnsPreMutationRecord ==
    (LastWas("UserPromptSubmit") /\ RecordBefore.has /\ ~RecordBefore.seen)
        => /\ RecordAfter = [RecordBefore EXCEPT !.seen = TRUE]
           /\ hist.last.ret = RecordBefore

\* C3: mark_seen is idempotent: the second of two calls in a row on one
\* session leaves the stored record as the first left it, and returns the
\* record that is stored after the first, whether the session started with
\* no record, an unseen record or a seen one.
C3_MarkSeenIdempotent ==
    (LastWas("UserPromptSubmit") /\ PrevWas("UserPromptSubmit"))
        => /\ fs = hist.last.before
           /\ hist.last.ret = RecordBefore

C3_SecondCallOnSeenRecord ==
    /\ LastWas("UserPromptSubmit")
    /\ PrevWas("UserPromptSubmit")
    /\ hist.last.ret.has
    /\ hist.last.ret.seen
    /\ RecordAfter = hist.last.ret

\* C4: on a transcript path that is not empty, a Stop whose last assistant
\* text classifies as critical stores a record with seen = false and tier
\* critical; a UserPromptSubmit that follows it on the same path gets a record
\* of tier critical from mark_seen and leaves the record stored with seen =
\* true and its tier, project and detail as they were.
C4_CriticalStopThenPrompt ==
    /\ (LastWas("Stop") /\ StopTier(hist.last.path) = critical)
          => /\ RecordAfter.has
             /\ ~RecordAfter.seen
             /\ RecordAfter.tier = critical
    /\ (/\ LastWas("UserPromptSubmit")
        /\ PrevWas("Stop")
        /\ StopTier(hist.last.path) = critical)
          => /\ hist.last.ret.has
             /\ hist.last.ret.tier = critical
             /\ RecordBefore.has
             /\ RecordAfter = [RecordBefore EXCEPT !.seen = TRUE]

C4_PromptAfterCriticalStop ==
    /\ LastWas("UserPromptSubmit")
    /\ PrevWas("Stop")
    /\ StopTier(hist.last.path) = critical
    /\ hist.last.ret.tier = critical
    /\ ~RecordBefore.seen
    /\ RecordAfter.seen

\* C5: once a SessionStart on a transcript path has ended, the record that
\* was stored for the path, if any, is gone, and a read_state that follows on
\* the path returns the empty record.
C5_SessionStartClears ==
    /\ LastWas("SessionStart")
          => /\ ~fs[state_path(hist.last.path)].exists
             /\ ~RecordAfter.has
    /\ (Quiet /\ hist.last.name = "read_state" /\ PrevWas("SessionStart"))
          => hist.last.ret = EmptyState

C5_RecordCleared ==
    /\ LastWas("SessionStart")
    /\ RecordBefore.has
    /\ ~RecordBefore.seen
    /\ ~RecordAfter.has

\* C6: clear_state on a session with no stored record fails in no way,
\* creates no record and leaves every state file as it was; a second clear
\* in a row changes nothing.
C6_ClearWithoutRecord ==
    /\ (LastWas("SessionStart") /\ ~hist.last.before[state_path(hist.last.path)].exists)
          => /\ hist.last.status = 0
             /\ fs = hist.last.before
    /\ (LastWas("SessionStart") /\ PrevWas("SessionStart"))
          => /\ hist.last.status = 0
             /\ fs = hist.last.before

C6_ClearedTwice ==
    /\ LastWas("SessionStart")
    /\ PrevWas("SessionStart")
    /\ ~fs[state_path(hist.last.path)].exists
    /\ \E f \in StateFiles : fs[f].exists

\* Whether the text matches a pattern of the tier at rank i of TIER_ORDER.
TierMatches(text, config, i) ==
    LET patterns == Get(TierConfig(config, TIER_ORDER[i]), "patterns", << >>)
    IN  \E k \in DOMAIN patterns :
            ~ReError(patterns[k]) /\ ReSearch(patterns[k], text)

Ranks == 1..Len(TIER_ORDER)

\* C7: first match wins: when the text, not empty, matches a pattern of the
\* tier at rank i and one of a tier at a later rank j, and none of any tier
\* before i, classify_priority returns the tier at rank i; and when a tier
\* matches, no tier ranked after it is returned.
C7_FirstMatchWins ==
    (result.done /\ arg.text # EmptyStr)
        => /\ \A i \in Ranks, j \in Ranks :
                 (/\ i < j
                  /\ TierMatches(arg.text, arg.config, i)
                  /\ TierMatches(arg.text, arg.config, j)
                  /\ \A k \in 1..(i - 1) : ~TierMatches(arg.text, arg.config, k))
                     => result.value = TIER_ORDER[i]
           /\ \A i \in Ranks :
                 TierMatches(arg.text, arg.config, i)
                     => \E r \in 1..i : result.value = TIER_ORDER[r]

C7_SecondAndThirdTierMatch ==
    /\ result.done
    /\ arg.text # EmptyStr
    /\ ~TierMatches(arg.text, arg.config, 1)
    /\ TierMatches(arg.text, arg.config, 2)
    /\ TierMatches(arg.text, arg.config, 3)
    /\ result.value = complete

\* C8: classify_priority on the empty text returns the last tier of the order
\* whatever the configuration, also when a pattern of an earlier tier matches
\* the empty string; and every result is a tier of the order.
C8_EmptyTextIsDefaultTier ==
    result.done
        => /\ arg.text = EmptyStr => result.value = TIER_ORDER[Len(TIER_ORDER)]
           /\ \E i \in Ranks : result.value = TIER_ORDER[i]

C8_EmptyTextAgainstEmptyPattern ==
    /\ result.done
    /\ arg.text = EmptyStr
    /\ TierMatches(EmptyStr, arg.config, 1)
    /\ result.value = update

\* The last invocation was the hook name and reached its handler, on any
\* transcript path.
LastHandled(name) == Quiet /\ hist.last.name = name /\ hist.last.title.set

\* C9: a Stop renders the tab with the unseen decoration exactly when it has
\* just stored an unseen record: with the decoration, the record stored for
\* the event's transcript path has seen = false and this tier, project and
\* detail; without it, the invocation wrote nothing and the tier is update.
C9_StopDecorationIffStored ==
    LastHandled("Stop")
        => /\ hist.last.title.unseen
                => /\ hist.last.path # ""
                   /\ RecordAfter = StateDict(FALSE, hist.last.tier,
                                              hist.last.project, hist.last.detail)
           /\ ~hist.last.title.unseen
                => /\ fs = hist.last.before
                   /\ hist.last.tier = update

C9_DecoratedStop ==
    /\ LastHandled("Stop")
    /\ hist.last.title.unseen
    /\ RecordBefore.has
    /\ RecordBefore.seen
    /\ ~RecordAfter.seen
    /\ RecordAfter.tier = hist.last.tier

\* C10, as stated: a Notification changes the state and plays a sound only
\* for the permission prompt, where it stores seen = false, tier critical,
\* detail "approve?" and the resolved project; for every other subtype the
\* files stay as they were and no sound is played.
C10_PermissionPromptStores ==
    LastHandled("Notification")
        => IF hist.last.ntype = "permission_prompt"
           THEN RecordAfter = StateDict(FALSE, critical, hist.last.project, approve)
           ELSE fs = hist.last.before /\ hist.last.sound = ""

\* C10, amended: the permission prompt stores that record when the event's
\* transcript path is not empty; with an empty path it stores nothing.
C10_PermissionPromptStoresOnPath ==
    LastHandled("Notification")
        => IF hist.last.ntype = "permission_prompt"
           THEN IF hist.last.path # ""
                THEN RecordAfter = StateDict(FALSE, critical, hist.last.project,
                                             approve)
                ELSE fs = hist.last.before
           ELSE fs = hist.last.before /\ hist.last.sound = ""

C10_PermissionPromptStored ==
    /\ LastHandled("Notification")
    /\ hist.last.ntype = "permission_prompt"
    /\ hist.last.path # ""
    /\ RecordBefore.has
    /\ RecordBefore.seen
    /\ RecordAfter = StateDict(FALSE, critical, hist.last.project, approve)
    /\ hist.last.sound = "error.wav"

\* The last invocation read an event object from its stdin.
LastEvent == Quiet /\ hist.last.name \in HookNames /\ hist.last.stdin = "object"

C12_EveryInvocationExitsZero ==
    (Quiet /\ hist.last.name \in HookNames) => hist.last.status = 0

\* The matches of the path pattern in the lines, in the order of the file.
RECURSIVE AllRefs(_)
AllRefs(lines) ==
    IF lines = << >> THEN << >> ELSE Head(lines).refs \o AllRefs(Tail(lines))

Occurrences(refs, name) == Cardinality({k \in 1..Len(refs) : refs[k] = name})

FirstOccurrence(refs, name) ==
    CHOOSE k \in 1..Len(refs) :
        refs[k] = name /\ \A j \in 1..(k - 1) : refs[j] # name

\* detect_project scans the file: a pattern, a path and the file are there.
Scanned == arg.config # EmptyDict /\ arg.path # "" /\ arg.transcript.exists

\* C13: when the path pattern matches at least once in the transcript,
\* detect_project returns the captured name with the greatest number of
\* matches over all lines, and among the names of that number the one whose
\* first match comes first.
C13_MostReferencedProject ==
    (result.done /\ Scanned /\ AllRefs(arg.transcript.lines) # << >>)
        => LET refs == AllRefs(arg.transcript.lines)
               names == {refs[k] : k \in 1..Len(refs)}
           IN  /\ result.value \in names
               /\ \A n \in names :
                      \/ Occurrences(refs, n) < Occurrences(refs, result.value)
                      \/ /\ Occurrences(refs, n) = Occurrences(refs, result.value)
                         /\ FirstOccurrence(refs, result.value)
                                <= FirstOccurrence(refs, n)

C13_TiedProjects ==
    /\ result.done
    /\ Scanned
    /\ Len(arg.transcript.lines) = 2
    /\ Occurrences(AllRefs(arg.transcript.lines), pA) = 3
    /\ Occurrences(AllRefs(arg.transcript.lines), pB) = 3
    /\ arg.transcript.lines[1].refs = <<pB, pA, pA>>
    /\ result.value = pB

\* The ends of the lines of a text: 0, the newlines, and one past the end.
LineEnds(text) == {0, Len(text) + 1} \cup {k \in 1..Len(text) : text[k] = NL}

\* The line that starts after the end b: up to the next end.
LineAfter(text, b) ==
    SubSeq(text, b + 1, (CHOOSE e \in LineEnds(text) :
                            e > b /\ \A x \in LineEnds(text) : x > b => e <= x) - 1)

\* A line without the white space around it.
Trimmed(line) ==
    LET black == {k \in 1..Len(line) : ~IsSpace(line[k])}
    IN  IF black = {} THEN EmptyStr
        ELSE SubSeq(line, CHOOSE k \in black : \A x \in black : k <= x,
                          CHOOSE k \in black : \A x \in black : x <= k)

\* The starts of the lines that are not empty once trimmed.
FullLines(text) ==
    {b \in LineEnds(text) : b <= Len(text) /\ Trimmed(LineAfter(text, b)) # EmptyStr}

EndsInQuestionMark(line) == line # EmptyStr /\ line[Len(line)] = "?"

\* The line holds "/", or its last token holds ".".
MentionsPath(line) ==
    \/ \E k \in 1..Len(line) : line[k] = "/"
    \/ \E k \in 1..Len(line) :
          line[k] = "." /\ \A j \in k..Len(line) : ~IsSpace(line[j])

First(starts) == CHOOSE b \in starts : \A x \in starts : b <= x

Last(starts) == CHOOSE b \in starts : \A x \in starts : x <= b

\* The start of the line the priority picks among the full lines of a text.
Picked(text) ==
    LET full == FullLines(text)
        questions == {b \in full : EndsInQuestionMark(Trimmed(LineAfter(text, b)))}
        paths == {b \in full : MentionsPath(Trimmed(LineAfter(text, b)))}
    IN  IF questions # {} THEN First(questions)
        ELSE IF paths # {} THEN First(paths)
        ELSE Last(full)

\* C14: extract_context picks by strict priority among the trimmed lines of
\* the text that are not empty: the first that ends in "?"; failing that the
\* first that holds "/" or whose last token holds "."; failing that the last
\* line.  The result is the picked line cut to max_len characters, and the
\* empty string for a text without such lines.
C14_ContextByPriority ==
    result.done
        => IF FullLines(arg.text) = {} THEN result.value = EmptyStr
           ELSE LET line == Trimmed(LineAfter(arg.text, Picked(arg.text)))
                IN  /\ Len(result.value) <= arg.max_len
                    /\ Len(result.value) = arg.max_len \/ Len(result.value) = Len(line)
                    /\ result.value = SubSeq(line, 1, Len(result.value))

C14_QuestionAfterPathLine ==
    /\ result.done
    /\ Cardinality(FullLines(arg.text)) = 2
    /\ MentionsPath(Trimmed(LineAfter(arg.text, First(FullLines(arg.text)))))
    /\ ~EndsInQuestionMark(Trimmed(LineAfter(arg.text, First(FullLines(arg.text)))))
    /\ EndsInQuestionMark(Trimmed(LineAfter(arg.text, Last(FullLines(arg.text)))))
    /\ result.value = <<"a", "?">>

\* The indices of the lines of the scanned window: the trailing TAIL_LINES.
Window(lines) == {k \in 1..Len(lines) : k > Len(lines) - TAIL_LINES}

\* A record of type assistant, of message role assistant, with a text block.
Qualifies(line) ==
    /\ line.json = "ok"
    /\ line.type = "assistant"
    /\ line.role = "assistant"
    /\ \E b \in 1..Len(line.content) : line.content[b].type = "text"

\* C15: extract_last_assistant_text returns the text blocks, joined by
\* newlines, of the last line among the trailing TAIL_LINES that is an
\* assistant record with a text block.  Assistant records without text and
\* unparsable lines are passed over, a record before the window is never
\* returned, and the result is empty when the window holds no such record or
\* the path or the file is missing.
C15_LastAssistantTextInWindow ==
    result.done
        => LET lines == arg.transcript.lines
               found == {k \in Window(lines) : Qualifies(lines[k])}
           IN  IF arg.path = "" \/ ~arg.transcript.exists \/ found = {}
               THEN result.value = EmptyStr
               ELSE result.value = JoinLines(TextBlocks(lines[Last(found)].content))

C15_AssistantTextBeforeWindow ==
    /\ result.done
    /\ arg.path # ""
    /\ arg.transcript.exists
    /\ Len(arg.transcript.lines) = TAIL_LINES + 1
    /\ Qualifies(arg.transcript.lines[1])
    /\ arg.transcript.lines[1].content = <<TextBlock(<<"x">>)>>
    /\ \E k \in Window(arg.transcript.lines) :
          arg.transcript.lines[k] = AssistantLine(<<ToolUse>>, << >>)
    /\ arg.transcript.lines[TAIL_LINES + 1] = GarbageLine
    /\ result.value = EmptyStr

\* The transcript of the event yields a match of the configured pattern.
YieldsMatch ==
    /\ "project" \in DOMAIN arg.config
    /\ "path_pattern" \in DOMAIN arg.config.project
    /\ "transcript_path" \in DOMAIN arg.event
    /\ arg.transcript.exists
    /\ AllRefs(arg.transcript.lines) # << >>

\* The configured fallback, empty when there is none.
ConfiguredFallback ==
    IF "project" \in DOMAIN arg.config /\ "fallback" \in DOMAIN arg.config.project
    THEN arg.config.project.fallback
    ELSE EmptyStr

\* The last component of a directory, trailing slashes apart; empty when the
\* directory is empty or holds slashes only.
LastComponent(cwd) ==
    LET names == {k \in 1..Len(cwd) : cwd[k] # "/"}
        e == Last(names)
        slashes == {k \in 1..e : cwd[k] = "/"}
    IN  IF names = {} THEN EmptyStr
        ELSE SubSeq(cwd, IF slashes = {} THEN 1 ELSE Last(slashes) + 1, e)

\* C16: resolve_project falls through in a fixed order: the detected project
\* when the transcript yields a match; else the configured fallback when it
\* is not empty; else the basename of the event's cwd, trailing slashes
\* stripped; else the label "claude".  The result is never empty.
C16_ResolveFallsThrough ==
    result.done
        => LET cwd == IF "cwd" \in DOMAIN arg.event THEN arg.event.cwd ELSE EmptyStr
               refs == AllRefs(arg.transcript.lines)
           IN  /\ result.value # EmptyStr
               /\ IF YieldsMatch
                  THEN /\ \E k \in 1..Len(refs) : refs[k] = result.value
                       /\ result.value = detect_project(arg.event.transcript_path,
                                                        arg.transcript, arg.config)
                  ELSE IF ConfiguredFallback # EmptyStr
                  THEN result.value = ConfiguredFallback
                  ELSE IF LastComponent(cwd) # EmptyStr
                  THEN result.value = LastComponent(cwd)
                  ELSE result.value = claude

C16_FallsToCwdBasename ==
    /\ result.done
    /\ "transcript_path" \in DOMAIN arg.event
    /\ arg.transcript = File(<<UserLine(<< >>)>>)
    /\ arg.config = [project |-> [path_pattern |-> "/([^/]+)/", fallback |-> EmptyStr]]
    /\ Get(arg.event, "cwd", EmptyStr) = <<"/", "b", "/">>
    /\ result.value = <<"b">>

\* Two records tell of the same notification.
SameNotice(a, b) == a.tier = b.tier /\ a.project = b.project /\ a.detail = b.detail

\* Process p takes a step of mark_seen's write-back: its open or its dump.
WritesBack(p) ==
    /\ pc[p] \in {"mark_seen_open", "mark_seen_dump"}
    /\ pc'[p] # pc[p]

\* C17: no notification is lost to a race of a UserPromptSubmit with a Stop
\* or a permission prompt on the same transcript path: a mark_seen that read
\* the record before a write_state completed never overwrites the newer
\* record with the older one's contents, so that every record its write-back
\* replaces is the notification it read.
C17_NoNotificationLost ==
    [][\A p \in Procs :
          WritesBack(p)
              => LET stored == ReadState(fs, TranscriptPath(p))
                 IN  stored.has => SameNotice(stored, loc[p].state)]_vars

\* C18: mark_seen never creates a record: when a SessionStart has cleared
\* the record between the read and the write-back of a UserPromptSubmit on
\* the same transcript path, the write-back does not bring the record back,
\* so that the open of every write-back finds the file it read.
C18_MarkSeenCreatesNoRecord ==
    [][\A p \in Procs :
          (pc[p] = "mark_seen_open" /\ pc'[p] = "mark_seen_dump")
              => fs[state_path(TranscriptPath(p))].exists]_vars

\* The record stored for transcript path t before the last invocation.
StoredBefore(t) == ReadState(hist.last.before, t)

\* The last invocation was a write of write_state to the state file of t: a
\* Stop, or a Notification of a permission prompt, on a path with that file.
LastWrote(t) ==
    /\ hist.last.path # ""
    /\ state_path(hist.last.path) = state_path(t)
    /\ \/ hist.last.name = "Stop"
       \/ hist.last.name = "Notification" /\ hist.last.ntype = "permission_prompt"

\* The tier of the last invocation's event: the classification of a Stop,
\* critical for a permission prompt.
LastTier ==
    IF hist.last.name = "Stop" THEN StopTier(hist.last.path) ELSE critical

\* C19: every stored record has its tier among critical and complete, the
\* default tier update is never stored; a record that an invocation leaves
\* with seen = false, and did not find so, was written by that invocation, a
\* Stop or a permission prompt, and carries the tier of its event; a record
\* that an invocation leaves with seen = true, and did not find so, is the
\* unseen record that a UserPromptSubmit's mark_seen found, flipped.
C19_StoredTiersAndSeenFlips ==
    \A t \in TranscriptPaths :
        LET after == ReadState(fs, t)
            before == StoredBefore(t)
        IN  /\ after.has => after.tier \in {critical, complete}
            /\ (Quiet /\ after.has /\ ~after.seen /\ after # before)
                   => LastWrote(t) /\ after.tier = LastTier
            /\ (Quiet /\ after.has /\ after.seen /\ after # before)
                   => /\ hist.last.name = "UserPromptSubmit"
                      /\ state_path(hist.last.path) = state_path(t)
                      /\ before.has
                      /\ ~before.seen
                      /\ SameNotice(after, before)

\* A Stop of the default tier on a session with an unseen critical record:
\* nothing is written and the record stays unseen and critical.
C19_UpdateStopKeepsUnseenRecord ==
    /\ LastWas("Stop")
    /\ hist.last.tier = update
    /\ RecordBefore.has
    /\ ~RecordBefore.seen
    /\ RecordBefore.tier = critical
    /\ RecordAfter = RecordBefore

\* C20: sessions are isolated: an event for one transcript path leaves the
\* record stored for every other transcript path as it was, and an event
\* with an empty transcript path leaves every state file as it was.
C20_SessionsIsolated ==
    Quiet
        => /\ \A t \in TranscriptPaths :
                  t # hist.last.path => ReadState(fs, t) = StoredBefore(t)
           /\ hist.last.path = "" => fs = hist.last.before

====
